---- MODULE Spec2Model ----
(***************************************************************************)
(* A model of the portfolio content-management backend in src/index.js:    *)
(* the six collections, the bearer-token gate, the request handlers and    *)
(* the administrator bootstrap.  A handler that awaits several store calls *)
(* is one action per store call, so that other requests interleave where   *)
(* the event loop lets them.                                               *)
(***************************************************************************)
EXTENDS Integers, Sequences, FiniteSets, TLC

\* ------------------------------------------------------------------ bounds
MaxReqs == 2          \* request handlers that can be in flight together
MaxDocs == 3          \* documents ever created (the _id counter's cap)
MaxSteps == 2         \* clock instants observed at each end of the day
ClockStep == 500      \* milliseconds between two observed instants
MaxLen == 2           \* longest skill list a request carries

\* ------------------------------------------------- constants of the program
MsPerSec == 1000      \* Date.now() is in ms, a token's iat/exp in seconds
ExpiresIn == 86400    \* expiresIn: '1d', in seconds
MsPerDay == ExpiresIn * MsPerSec

Reqs == 1..MaxReqs
JWT_SECRET == "secret"
DefaultEmail == "admin@gmail.com"
DefaultPassword == "admin123"
UploadPrefix == "/uploads/"

\* --------------------------------------------------------------- JS values
\* A JSON/JS value of the request body as far as the handlers look at it:
\* a string (plain text, or the text of a bcrypt hash) or not a string.
Str(t) == [type |-> "string", hashed |-> FALSE, text |-> t]
Undefined == [type |-> "undefined", hashed |-> FALSE, text |-> ""]

\* bcrypt.hashSync(s, 10): the stored string is a hash of s, never s.
hashSync(s) == [type |-> "string", hashed |-> TRUE, text |-> s.text]

\* bcrypt.compareSync(s, hash): throws on a non-string argument, otherwise
\* tells whether hash is a bcrypt hash of s.
compareSync(s, hash) ==
    IF s.type # "string" \/ hash.type # "string"
    THEN "throw"
    ELSE IF hash.hashed /\ ~s.hashed /\ s.text = hash.text THEN "match" ELSE "differ"

\* --------------------------------------------------------------- tokens
\* A token: its payload and the signature over that payload.
Sig(key, id, iat, exp) == [key |-> key, id |-> id, iat |-> iat, exp |-> exp]
Token(wf, id, iat, exp, sig) == [wf |-> wf, id |-> id, iat |-> iat, exp |-> exp, sig |-> sig]
Garbage == Token(FALSE, 0, 0, 0, Sig("none", 0, 0, 0))

\* jwt.sign that takes the clock's milliseconds for the token's seconds.
jwt_sign_Ms(id, secret, t) ==
    Token(TRUE, id, t, t + ExpiresIn, Sig(secret, id, t, t + ExpiresIn))

\* jwt.sign({ id }, secret, { expiresIn: '1d' }) at clock t (ms).
jwt_sign(id, secret, t) ==
    LET iat == t \div MsPerSec
    IN  Token(TRUE, id, iat, iat + ExpiresIn, Sig(secret, id, iat, iat + ExpiresIn))

\* jwt.verify(token, secret) at clock t (ms): "malformed", "signature",
\* "expired", or "ok" (the caller then reads the payload).
jwt_verify(token, secret, t) ==
    IF ~token.wf THEN "malformed"
    ELSE IF token.sig # Sig(secret, token.id, token.iat, token.exp) THEN "signature"
    ELSE IF t \div MsPerSec >= token.exp THEN "expired"
    ELSE "ok"

\* What a client can do to a token it holds.
Tamper(tok) == [tok EXCEPT !.exp = tok.exp + ExpiresIn]
Forge(tok) == [tok EXCEPT !.sig = Sig("guess", tok.id, tok.iat, tok.exp)]

\* The Authorization header.
NoHeader == [present |-> FALSE, scheme |-> "", token |-> Garbage]
Header(scheme, tok) == [present |-> TRUE, scheme |-> scheme, token |-> tok]
Bearer(tok) == Header("Bearer", tok)


\* ------------------------------------------------------------------- state
VARIABLES
    now,         \* Date.now(), in ms
    env,         \* process.env of the running process: ADMIN_EMAIL, ADMIN_PASSWORD
    Admin, About, Project, Experience, Skill, Submission,
                 \* the six collections, each in the store's natural order
    nextId,      \* the next ObjectId of the Project/Experience/Admin documents
    seedPc,      \* where seedAdmin() of the running process stands
    pc,          \* pc[r]: where the handler of request slot r stands
    loc,         \* loc[r]: that handler's local variables across its awaits
    req,         \* req[r]: the request slot r last received
    res,         \* res[r]: the response slot r last sent
    issued       \* the tokens login has handed out, each with its issue time

store == <<Admin, About, Project, Experience, Skill, Submission>>
vars == <<now, env, Admin, About, Project, Experience, Skill, Submission,
          nextId, seedPc, pc, loc, req, res, issued>>

NoData == [kind |-> "none"]
NoLoc == [kind |-> "none"]
NoRes == [status |-> 0, message |-> "", data |-> NoData]
NoId == [wellFormed |-> FALSE, val |-> 0]
NoReq == [route |-> "", auth |-> NoHeader, id |-> NoId, body |-> NoData, file |-> NoData]
Request(route, h, id, body, file) ==
    [route |-> route, auth |-> h, id |-> id, body |-> body, file |-> file]

\* res.status(s).json({message, ...}) or res.json(data) in slot r.
Reply(r, status, message, data) ==
    res' = [res EXCEPT ![r] = [status |-> status, message |-> message, data |-> data]]

\* The names of a sequence of documents, in order.
RECURSIVE Names(_)
Names(docs) == IF docs = <<>> THEN <<>> ELSE <<Head(docs).name>> \o Names(Tail(docs))

Range(s) == {s[i] : i \in DOMAIN s}

\* The observed clock instants: the first moments, and those around one day.
Instants ==
    {k * ClockStep : k \in 0..MaxSteps}
        \cup {MsPerDay - MsPerSec + k * ClockStep : k \in 0..(MaxSteps + 3)}

Envs == {[ADMIN_EMAIL |-> e, ADMIN_PASSWORD |-> p] :
            e \in {Undefined, Str("owner@site.dev")}, p \in {Undefined, Str("s3cret")}}

\* a || b of JavaScript on the values above.
OrElse(a, b) == IF a.type = "undefined" \/ a.text = "" THEN b ELSE a

Init ==
    /\ now = 0
    /\ env \in Envs
    /\ Admin = <<>> /\ About = <<>> /\ Project = <<>>
    /\ Experience = <<>> /\ Skill = <<>> /\ Submission = <<>>
    /\ nextId = 1
    /\ seedPc = "count"
    /\ pc = [r \in Reqs |-> "idle"]
    /\ loc = [r \in Reqs |-> NoLoc]
    /\ req = [r \in Reqs |-> NoReq]
    /\ res = [r \in Reqs |-> NoRes]
    /\ issued = {}

\* Time passes: the clock reads t.
Tick(t) ==
    /\ t > now
    /\ now' = t
    /\ UNCHANGED <<env, store, nextId, seedPc, pc, loc, req, res, issued>>

\* ------------------------------------------------------------- bootstrap
\* seedAdmin that creates the administrator whatever the count.
seedAdminCount_NoCheck ==
    /\ seedPc = "count"
    /\ seedPc' = "create"
    /\ UNCHANGED <<now, env, store, nextId, pc, loc, req, res, issued>>

\* seedAdmin, up to its first await: Admin.countDocuments().
seedAdminCount ==
    /\ seedPc = "count"
    /\ seedPc' = IF Len(Admin) = 0 THEN "create" ELSE "done"
    /\ UNCHANGED <<now, env, store, nextId, pc, loc, req, res, issued>>

\* The document seedAdmin hands to Admin.create.
seedAdminDoc ==
    [_id |-> nextId,
     email |-> OrElse(env.ADMIN_EMAIL, Str(DefaultEmail)),
     password |-> hashSync(OrElse(env.ADMIN_PASSWORD, Str(DefaultPassword)))]

\* Admin.create(doc): the unique index on email rejects a second document
\* with an email the collection holds.
AdminCreate(doc) ==
    IF \E i \in DOMAIN Admin : Admin[i].email = doc.email
    THEN Admin
    ELSE Append(Admin, doc)

\* seedAdmin, after the count: create the administrator.
seedAdminCreate ==
    /\ seedPc = "create"
    /\ nextId <= MaxDocs
    /\ Admin' = AdminCreate(seedAdminDoc)
    /\ nextId' = nextId + 1
    /\ seedPc' = "done"
    /\ UNCHANGED <<now, env, About, Project, Experience, Skill, Submission,
                   pc, loc, req, res, issued>>

\* A later startup: the process ends, whatever its handlers were doing, and
\* a new one loads the module under its own environment and calls seedAdmin().
Restart ==
    /\ env' \in Envs
    /\ seedPc' = "count"
    /\ pc' = [r \in Reqs |-> "idle"]
    /\ loc' = [r \in Reqs |-> NoLoc]
    /\ UNCHANGED <<now, store, nextId, req, res, issued>>

\* ----------------------------------------------------------- auth gate
\* authenticate that decodes the token without verifying it.
authenticate_Decode(h) ==
    IF ~h.present \/ h.scheme # "Bearer"
    THEN [ok |-> FALSE, status |-> 401, message |-> "Unauthorized: Missing Token", adminId |-> 0]
    ELSE [ok |-> TRUE, status |-> 200, message |-> "", adminId |-> h.token.id]

\* authenticate: what it answers, or that it calls next().
authenticate(h) ==
    IF ~h.present \/ h.scheme # "Bearer"
    THEN [ok |-> FALSE, status |-> 401, message |-> "Unauthorized: Missing Token", adminId |-> 0]
    ELSE IF jwt_verify(h.token, JWT_SECRET, now) = "ok"
    THEN [ok |-> TRUE, status |-> 200, message |-> "", adminId |-> h.token.id]
    ELSE [ok |-> FALSE, status |-> 401,
          message |-> "Unauthorized: Invalid or Expired Token", adminId |-> 0]

\* A protected route whose gate answered: the handler body never runs.
Rejected(r, a) ==
    /\ Reply(r, a.status, a.message, NoData)
    /\ UNCHANGED <<now, env, store, nextId, seedPc, pc, loc, issued>>

\* Admin.findOne({ email }): the first document with that email, or 0.
AdminFindOne(email) ==
    IF \E i \in DOMAIN Admin : Admin[i].email = email
    THEN CHOOSE i \in DOMAIN Admin :
            Admin[i].email = email /\ \A j \in DOMAIN Admin : Admin[j].email = email => i <= j
    ELSE 0

\* POST /login.
Login(r, email, password) ==
    /\ pc[r] = "idle"
    /\ req' = [req EXCEPT ![r] =
                 Request("POST /login", NoHeader, NoId,
                         [kind |-> "login", email |-> email, password |-> password], NoData)]
    /\ LET i == AdminFindOne(email)
           cmp == IF i = 0 THEN "absent" ELSE compareSync(password, Admin[i].password)
       IN  IF cmp = "match"
           THEN LET token == jwt_sign(Admin[i]._id, JWT_SECRET, now)
                IN  /\ Reply(r, 200, "", [kind |-> "token", token |-> token])
                    /\ issued' = issued \cup {[token |-> token, at |-> now, admin |-> Admin[i]._id]}
           ELSE IF cmp = "throw"
           THEN Reply(r, 500, "Login error", NoData) /\ issued' = issued
           ELSE Reply(r, 401, "Invalid credentials", NoData) /\ issued' = issued
    /\ UNCHANGED <<now, env, store, nextId, seedPc, pc, loc>>

\* ---------------------------------------------------------------- about
\* PUT /about, up to its first await: the gate, then About.findOne().
PutAbout(r, h, body) ==
    /\ pc[r] = "idle"
    /\ req' = [req EXCEPT ![r] = Request("PUT /about", h, NoId, body, NoData)]
    /\ LET a == authenticate(h)
       IN  IF ~a.ok
           THEN Rejected(r, a)
           ELSE /\ pc' = [pc EXCEPT ![r] = "about_write"]
                /\ loc' = [loc EXCEPT ![r] =
                             [kind |-> "about",
                              about |-> IF About = <<>> THEN 0 ELSE About[1]._id]]
                /\ UNCHANGED <<now, env, store, nextId, seedPc, res, issued>>

\* about.save(): the document with that _id takes the two assigned fields.
AboutSave(id, body) ==
    [i \in DOMAIN About |->
        IF About[i]._id = id
        THEN [About[i] EXCEPT !.title = body.title, !.text = body.text]
        ELSE About[i]]

\* About.create(req.body): a new document, the schema's defaults for the
\* fields the body leaves out.
AboutCreate(body) ==
    Append(About, [_id |-> Len(About) + 1,
                   title |-> IF body.title.type = "undefined" THEN Str("About Me") ELSE body.title,
                   text |-> IF body.text.type = "undefined" THEN Str("") ELSE body.text])

\* PUT /about, after findOne: save the document found, or create one.
PutAboutWrite(r) ==
    /\ pc[r] = "about_write"
    /\ About' = IF loc[r].about # 0
                THEN AboutSave(loc[r].about, req[r].body)
                ELSE AboutCreate(req[r].body)
    /\ Reply(r, 200, "", [kind |-> "about",
                          doc |-> IF loc[r].about # 0
                                  THEN About'[CHOOSE i \in DOMAIN About : About[i]._id = loc[r].about]
                                  ELSE About'[Len(About')]])
    /\ pc' = [pc EXCEPT ![r] = "idle"]
    /\ loc' = [loc EXCEPT ![r] = NoLoc]
    /\ UNCHANGED <<now, env, Admin, Project, Experience, Skill, Submission,
                   nextId, seedPc, req, issued>>

\* --------------------------------------------------------------- skills
\* A deleteMany that matches nothing.
SkillDeleteMany_None == Skill

\* Skill.deleteMany({}): what is left of the collection.
SkillDeleteMany == <<>>

\* PUT /skills, up to its second await: the gate, then Skill.deleteMany({})
\* has run and insertMany is under way.
PutSkills(r, h, names) ==
    /\ pc[r] = "idle"
    /\ req' = [req EXCEPT ![r] =
                 Request("PUT /skills", h, NoId, [kind |-> "skills", names |-> names], NoData)]
    /\ LET a == authenticate(h)
       IN  IF ~a.ok
           THEN Rejected(r, a)
           ELSE /\ Skill' = SkillDeleteMany
                /\ pc' = [pc EXCEPT ![r] = "skills_insert"]
                /\ loc' = [loc EXCEPT ![r] =
                             [kind |-> "skills", todo |-> names, newSkills |-> <<>>]]
                /\ UNCHANGED <<now, env, Admin, About, Project, Experience, Submission,
                               nextId, seedPc, res, issued>>

\* The unique index on Skill.name: whether the collection takes the name.
SkillAccepts(name) == \A i \in DOMAIN Skill : Skill[i].name # name

\* Skill.insertMany, one document: the store inserts the documents of the
\* batch in order, each on its own, and stops at the first it rejects.
PutSkillsInsert(r) ==
    /\ pc[r] = "skills_insert"
    /\ loc[r].todo # <<>>
    /\ LET name == Head(loc[r].todo)
       IN  IF SkillAccepts(name)
           THEN /\ Skill' = Append(Skill, [name |-> name])
                /\ loc' = [loc EXCEPT ![r].todo = Tail(@),
                                      ![r].newSkills = Append(@, [name |-> name])]
                /\ UNCHANGED <<pc, res>>
           ELSE /\ Reply(r, 500, "Skills update error", NoData)
                /\ pc' = [pc EXCEPT ![r] = "idle"]
                /\ loc' = [loc EXCEPT ![r] = NoLoc]
                /\ UNCHANGED Skill
    /\ UNCHANGED <<now, env, Admin, About, Project, Experience, Submission,
                   nextId, seedPc, req, issued>>

\* PUT /skills, after insertMany: res.json(newSkills.map(s => s.name)).
PutSkillsDone(r) ==
    /\ pc[r] = "skills_insert"
    /\ loc[r].todo = <<>>
    /\ Reply(r, 200, "", [kind |-> "names", names |-> Names(loc[r].newSkills)])
    /\ pc' = [pc EXCEPT ![r] = "idle"]
    /\ loc' = [loc EXCEPT ![r] = NoLoc]
    /\ UNCHANGED <<now, env, store, nextId, seedPc, req, issued>>

\* -------------------------------------------------------------- content
\* find().sort({ key: -1 }) on documents paired with their sort key: the
\* greatest key first, those of one key in their natural order.
RECURSIVE InsertDesc(_, _)
InsertDesc(e, sorted) ==
    IF sorted = <<>> THEN <<e>>
    ELSE IF e.key > Head(sorted).key
         THEN <<e>> \o sorted
         ELSE <<Head(sorted)>> \o InsertDesc(e, Tail(sorted))

RECURSIVE SortDesc(_)
SortDesc(keyed) ==
    IF keyed = <<>> THEN <<>>
    ELSE InsertDesc(keyed[Len(keyed)], SortDesc([i \in 1..(Len(keyed) - 1) |-> keyed[i]]))

\* Model.find().sort({ createdAt: -1 }).
NewestFirst(docs) ==
    LET sorted == SortDesc([i \in DOMAIN docs |-> [key |-> docs[i].createdAt, doc |-> docs[i]]])
    IN  [i \in DOMAIN sorted |-> sorted[i].doc]

\* GET /content, first await: About.findOne() || the default shape.
GetContent(r) ==
    /\ pc[r] = "idle"
    /\ req' = [req EXCEPT ![r] = Request("GET /content", NoHeader, NoId, NoData, NoData)]
    /\ pc' = [pc EXCEPT ![r] = "content_projects"]
    /\ loc' = [loc EXCEPT ![r] =
                 [kind |-> "content",
                  about |-> IF About = <<>>
                            THEN [_id |-> 0, title |-> Str("About Me"), text |-> Str("")]
                            ELSE About[1],
                  projects |-> <<>>, experience |-> <<>>]]
    /\ UNCHANGED <<now, env, store, nextId, seedPc, res, issued>>

\* GET /content, second await: Project.find().sort({ createdAt: -1 }).
GetContentProjects(r) ==
    /\ pc[r] = "content_projects"
    /\ pc' = [pc EXCEPT ![r] = "content_experience"]
    /\ loc' = [loc EXCEPT ![r].projects = NewestFirst(Project)]
    /\ UNCHANGED <<now, env, store, nextId, seedPc, req, res, issued>>

\* GET /content, third await: Experience.find().sort({ createdAt: -1 }).
GetContentExperience(r) ==
    /\ pc[r] = "content_experience"
    /\ pc' = [pc EXCEPT ![r] = "content_skills"]
    /\ loc' = [loc EXCEPT ![r].experience = NewestFirst(Experience)]
    /\ UNCHANGED <<now, env, store, nextId, seedPc, req, res, issued>>

\* A find that stops at the first document.
ContentSkills_One == IF Skill = <<>> THEN <<>> ELSE <<Skill[1].name>>

\* Skill.find(), then skillsData.map(s => s.name).
ContentSkills == Names(Skill)

\* GET /content, last await: Skill.find(), then the response.
GetContentSkills(r) ==
    /\ pc[r] = "content_skills"
    /\ Reply(r, 200, "", [kind |-> "content", about |-> loc[r].about,
                          projects |-> loc[r].projects,
                          experience |-> loc[r].experience,
                          skills |-> ContentSkills])
    /\ pc' = [pc EXCEPT ![r] = "idle"]
    /\ loc' = [loc EXCEPT ![r] = NoLoc]
    /\ UNCHANGED <<now, env, store, nextId, seedPc, req, issued>>

\* ------------------------------------------------------------- projects
\* A path or URL string as the image field holds it, or no value.
Unset == [type |-> "undefined", prefix |-> "", stamp |-> 0, name |-> ""]
Text(t) == [type |-> "string", prefix |-> "", stamp |-> 0, name |-> t]
NoFile == [present |-> FALSE, originalname |-> ""]
File(name) == [present |-> TRUE, originalname |-> name]

\* multer's filename callback, then `/uploads/${req.file.filename}`.
UploadPath(file) ==
    [type |-> "string", prefix |-> UploadPrefix, stamp |-> now, name |-> file.originalname]

\* projectData that takes the upload path whether or not a file came along.
projectData_Always(body, file) == [body EXCEPT !.image = UploadPath(file)]

\* projectData: { ...req.body }, its image replaced when a file came along.
projectData(body, file) ==
    IF file.present THEN [body EXCEPT !.image = UploadPath(file)] ELSE body

\* ObjectId cast of the :id parameter.
CastObjectId(id) == IF id.wellFormed THEN id.val ELSE 0

\* The position of the document with this _id in a collection, or 0.
FindById(docs, id) ==
    IF \E i \in DOMAIN docs : docs[i]._id = id
    THEN CHOOSE i \in DOMAIN docs : docs[i]._id = id
    ELSE 0

\* Without the document at position k.
RemoveAt(docs, k) ==
    [i \in 1..(Len(docs) - 1) |-> IF i < k THEN docs[i] ELSE docs[i + 1]]

\* $set of one field: a value the update leaves out keeps the stored one.
SetField(old, new) == IF new.type = "undefined" THEN old ELSE new

\* POST /projects.
PostProject(r, h, body, file) ==
    /\ pc[r] = "idle"
    /\ req' = [req EXCEPT ![r] = Request("POST /projects", h, NoId, body, file)]
    /\ LET a == authenticate(h)
           data == projectData(body, file)
           newProject == [_id |-> nextId, title |-> data.title, image |-> data.image,
                          createdAt |-> now]
       IN  IF ~a.ok
           THEN Rejected(r, a)
           ELSE /\ nextId <= MaxDocs
                /\ Project' = Append(Project, newProject)
                /\ nextId' = nextId + 1
                /\ Reply(r, 200, "", [kind |-> "doc", null |-> FALSE, doc |-> newProject])
                /\ UNCHANGED <<now, env, Admin, About, Experience, Skill, Submission,
                               seedPc, pc, loc, issued>>

\* Project.findByIdAndUpdate(id, data, { new: true }) on the document at k.
ProjectUpdate(k, data) ==
    [Project EXCEPT ![k] = [@ EXCEPT !.title = SetField(@, data.title),
                                     !.image = SetField(@, data.image)]]

\* PUT /projects/:id.
PutProject(r, h, id, body, file) ==
    /\ pc[r] = "idle"
    /\ req' = [req EXCEPT ![r] = Request("PUT /projects/:id", h, id, body, file)]
    /\ LET a == authenticate(h)
           k == FindById(Project, CastObjectId(id))
       IN  IF ~a.ok
           THEN Rejected(r, a)
           ELSE /\ IF ~id.wellFormed
                   THEN Reply(r, 500, "Project update error", NoData) /\ Project' = Project
                   ELSE IF k = 0
                   THEN /\ Reply(r, 200, "", [kind |-> "doc", null |-> TRUE, doc |-> NoData])
                        /\ Project' = Project
                   ELSE /\ Project' = ProjectUpdate(k, projectData(body, file))
                        /\ Reply(r, 200, "", [kind |-> "doc", null |-> FALSE, doc |-> Project'[k]])
                /\ UNCHANGED <<now, env, Admin, About, Experience, Skill, Submission,
                               nextId, seedPc, pc, loc, issued>>

\* findOneAndDelete under a filter that lost its _id: the first document goes.
FindByIdAndDelete_First(docs, id) ==
    LET k == FindById(docs, CastObjectId(id))
    IN  IF docs = <<>> THEN docs ELSE RemoveAt(docs, IF k = 0 THEN 1 ELSE k)

\* Model.findByIdAndDelete(id) on a collection: what is left of it.
FindByIdAndDelete(docs, id) ==
    LET k == FindById(docs, CastObjectId(id))
    IN  IF k = 0 THEN docs ELSE RemoveAt(docs, k)

\* DELETE /projects/:id.
DeleteProject(r, h, id) ==
    /\ pc[r] = "idle"
    /\ req' = [req EXCEPT ![r] = Request("DELETE /projects/:id", h, id, NoData, NoData)]
    /\ LET a == authenticate(h)
       IN  IF ~a.ok
           THEN Rejected(r, a)
           ELSE /\ IF ~id.wellFormed
                   THEN Reply(r, 500, "Delete error", NoData) /\ Project' = Project
                   ELSE /\ Project' = FindByIdAndDelete(Project, id)
                        /\ Reply(r, 200, "Deleted", NoData)
                /\ UNCHANGED <<now, env, Admin, About, Experience, Skill, Submission,
                               nextId, seedPc, pc, loc, issued>>

\* ----------------------------------------------------------- experience
\* POST /experience.
PostExperience(r, h, body) ==
    /\ pc[r] = "idle"
    /\ req' = [req EXCEPT ![r] = Request("POST /experience", h, NoId, body, NoData)]
    /\ LET a == authenticate(h)
           newExp == [_id |-> nextId, role |-> body.role, createdAt |-> now]
       IN  IF ~a.ok
           THEN Rejected(r, a)
           ELSE /\ nextId <= MaxDocs
                /\ Experience' = Append(Experience, newExp)
                /\ nextId' = nextId + 1
                /\ Reply(r, 200, "", [kind |-> "doc", null |-> FALSE, doc |-> newExp])
                /\ UNCHANGED <<now, env, Admin, About, Project, Skill, Submission,
                               seedPc, pc, loc, issued>>

\* PUT /experience/:id.
PutExperience(r, h, id, body) ==
    /\ pc[r] = "idle"
    /\ req' = [req EXCEPT ![r] = Request("PUT /experience/:id", h, id, body, NoData)]
    /\ LET a == authenticate(h)
           k == FindById(Experience, CastObjectId(id))
       IN  IF ~a.ok
           THEN Rejected(r, a)
           ELSE /\ IF ~id.wellFormed
                   THEN Reply(r, 500, "Experience update error", NoData)
                        /\ Experience' = Experience
                   ELSE IF k = 0
                   THEN /\ Reply(r, 200, "", [kind |-> "doc", null |-> TRUE, doc |-> NoData])
                        /\ Experience' = Experience
                   ELSE /\ Experience' =
                             [Experience EXCEPT ![k].role = SetField(@, body.role)]
                        /\ Reply(r, 200, "", [kind |-> "doc", null |-> FALSE,
                                              doc |-> Experience'[k]])
                /\ UNCHANGED <<now, env, Admin, About, Project, Skill, Submission,
                               nextId, seedPc, pc, loc, issued>>

\* DELETE /experience/:id.
DeleteExperience(r, h, id) ==
    /\ pc[r] = "idle"
    /\ req' = [req EXCEPT ![r] = Request("DELETE /experience/:id", h, id, NoData, NoData)]
    /\ LET a == authenticate(h)
       IN  IF ~a.ok
           THEN Rejected(r, a)
           ELSE /\ IF ~id.wellFormed
                   THEN Reply(r, 500, "Delete error", NoData) /\ Experience' = Experience
                   ELSE /\ Experience' = FindByIdAndDelete(Experience, id)
                        /\ Reply(r, 200, "Deleted", NoData)
                /\ UNCHANGED <<now, env, Admin, About, Project, Skill, Submission,
                               nextId, seedPc, pc, loc, issued>>

\* -------------------------------------------------------------- contact
\* POST /contact/submit: Submission.create(req.body), the date defaulting
\* to Date.now.
ContactSubmit(r, body) ==
    /\ pc[r] = "idle"
    /\ Len(Submission) < MaxDocs
    /\ req' = [req EXCEPT ![r] = Request("POST /contact/submit", NoHeader, NoId, body, NoData)]
    /\ Submission' = Append(Submission,
                            [name |-> body.name,
                             date |-> IF body.hasDate THEN body.date ELSE now])
    /\ Reply(r, 200, "Message sent successfully", NoData)
    /\ UNCHANGED <<now, env, Admin, About, Project, Experience, Skill,
                   nextId, seedPc, pc, loc, issued>>

\* Submission.find().sort({ date: -1 }).
SubmissionsByDate ==
    LET sorted == SortDesc([i \in DOMAIN Submission |->
                               [key |-> Submission[i].date, doc |-> Submission[i]]])
    IN  [i \in DOMAIN sorted |-> sorted[i].doc]

\* GET /contact/submissions.
GetSubmissions(r, h) ==
    /\ pc[r] = "idle"
    /\ req' = [req EXCEPT ![r] = Request("GET /contact/submissions", h, NoId, NoData, NoData)]
    /\ LET a == authenticate(h)
       IN  IF ~a.ok
           THEN Rejected(r, a)
           ELSE /\ Reply(r, 200, "", [kind |-> "list", docs |-> SubmissionsByDate])
                /\ UNCHANGED <<now, env, store, nextId, seedPc, pc, loc, issued>>

\* ------------------------------------------------------- what clients send
MaxTokens == 2        \* tokens the clients hold

Emails == {Str(DefaultEmail), Str("owner@site.dev"), Str("nobody@site.dev")}
Passwords == {Str(DefaultPassword), Str("s3cret"), Str("guess"), Undefined}

ClientTokens == {i.token : i \in issued}
\* Every shape of Authorization header: none, another scheme, and Bearer
\* with a token a login issued, one tampered with, one forged, or garbage.
HeaderForms ==
    LET toks == ClientTokens \cup {Tamper(t) : t \in ClientTokens}
                    \cup {Forge(t) : t \in ClientTokens} \cup {Garbage}
    IN  {NoHeader} \cup {Header("Basic", t) : t \in ClientTokens}
            \cup {Header("Bearer", t) : t \in toks}
\* The headers of a client that logged in.
SessionHeaders == {Bearer(t) : t \in ClientTokens}

SkillNames == {"Go", "Rust", "TS"}
SkillLists == UNION {[1..n -> SkillNames] : n \in 0..MaxLen}
Distinct(names) == \A i, j \in DOMAIN names : names[i] = names[j] => i = j

AboutBodies == {[title |-> Str("Me"), text |-> Str(t)] : t \in {"a", "b"}}
                   \cup {[title |-> Undefined, text |-> Str("a")]}
ProjectBodies == {[title |-> t, image |-> i] :
                     t \in {Undefined, Str("Site")}, i \in {Unset, Text("http://cdn/x.png")}}
Files == {NoFile, File("a.png")}
IdParams == {[wellFormed |-> TRUE, val |-> n] : n \in 1..(MaxDocs + 1)}
                \cup {[wellFormed |-> FALSE, val |-> 0]}
ExperienceBodies == {[role |-> x] : x \in {Undefined, Str("Dev")}}
SubmissionBodies == {[name |-> Str("Ann"), hasDate |-> d, date |-> MsPerDay] : d \in BOOLEAN}

\* The slots whose requests read the content.
Readers == {2}

\* One body of each kind, where only the gate is looked at.
AboutSample == [title |-> Str("Me"), text |-> Str("a")]
ProjectSample == [title |-> Str("Site"), image |-> Unset]
ExperienceSample == [role |-> Str("Dev")]
IdSample == [wellFormed |-> TRUE, val |-> MaxDocs]

\* ------------------------------------------------------ specifications
LoginAny(r) ==
    /\ Cardinality(issued) < MaxTokens
    /\ \E e \in Emails, p \in Passwords : Login(r, e, p)

\* The administrator's client: it logs in with the credentials of the
\* stored administrator.
LoginAdmin(r) ==
    /\ issued = {}
    /\ \E i \in DOMAIN Admin, p \in Passwords : Login(r, Admin[i].email, p)

seedAdmin == seedAdminCount \/ seedAdminCreate

\* The bootstrap over several startups, logins against what it left, and
\* the contact messages and their listing.
NextBoot ==
    \/ seedAdmin
    \/ Restart
    \/ LoginAny(1)
    \/ \E b \in SubmissionBodies : ContactSubmit(1, b)
    \/ \E h \in SessionHeaders : GetSubmissions(1, h)

SpecBoot == Init /\ [][NextBoot]_vars

\* A request to a protected route in slot r with header h.
Protected(r, h) ==
    \/ PutAbout(r, h, AboutSample)
    \/ PutSkills(r, h, <<"Go">>)
    \/ PostProject(r, h, ProjectSample, NoFile)
    \/ PutProject(r, h, IdSample, ProjectSample, NoFile)
    \/ DeleteProject(r, h, IdSample)
    \/ PostExperience(r, h, ExperienceSample)
    \/ PutExperience(r, h, IdSample, ExperienceSample)
    \/ DeleteExperience(r, h, IdSample)
    \/ GetSubmissions(r, h)

\* A process started with no administrator configured.
InitDefault == Init /\ env = [ADMIN_EMAIL |-> Undefined, ADMIN_PASSWORD |-> Undefined]

\* Sessions over time: logins at any instant, and a protected route under
\* every shape of header at any later one.
NextSession ==
    \/ seedAdmin
    \/ \E t \in Instants : Tick(t)
    \/ LoginAny(1)
    \/ \E h \in HeaderForms : GetSubmissions(1, h)

SpecSession == InitDefault /\ [][NextSession]_vars

\* The gate: logins with any credentials and every protected route under
\* every shape of header, today and a day later.
NextAuth ==
    \/ seedAdmin
    \/ Tick(MsPerDay)
    \/ LoginAny(1)
    \/ \E h \in HeaderForms : Protected(1, h)
    \/ PutAboutWrite(1)
    \/ PutSkillsInsert(1)
    \/ PutSkillsDone(1)

SpecAuth == InitDefault /\ [][NextAuth]_vars

\* Update-about requests of a logged-in administrator, overlapping.
NextAbout ==
    \/ seedAdmin
    \/ LoginAdmin(1)
    \/ \E r \in Reqs, h \in SessionHeaders, b \in AboutBodies : PutAbout(r, h, b)
    \/ \E r \in Reqs : PutAboutWrite(r)

SpecAbout == InitDefault /\ [][NextAbout]_vars

\* Replace-skills requests of one administrator client, which sends the next
\* when the last was answered (slot 1), and reads of the content that
\* overlap them (slot 2).
NextSkills ==
    \/ seedAdmin
    \/ LoginAdmin(1)
    \/ \E h \in SessionHeaders, names \in SkillLists : PutSkills(1, h, names)
    \/ PutSkillsInsert(1)
    \/ PutSkillsDone(1)
    \/ \E r \in Readers :
          GetContent(r) \/ GetContentProjects(r) \/ GetContentExperience(r)
              \/ GetContentSkills(r)

SpecSkills == InitDefault /\ [][NextSkills]_vars

\* Projects and experience entries of a logged-in administrator.
NextProjects ==
    \/ seedAdmin
    \/ LoginAdmin(1)
    \/ \E h \in SessionHeaders :
          \/ \E b \in ProjectBodies, f \in Files : PostProject(1, h, b, f)
          \/ \E id \in IdParams, b \in ProjectBodies, f \in Files : PutProject(1, h, id, b, f)
          \/ \E id \in IdParams : DeleteProject(1, h, id)
          \/ \E b \in ExperienceBodies : PostExperience(1, h, b)
          \/ \E id \in IdParams, b \in ExperienceBodies : PutExperience(1, h, id, b)
          \/ \E id \in IdParams : DeleteExperience(1, h, id)

SpecProjects == InitDefault /\ [][NextProjects]_vars

\* Everything the process does.
Next == NextBoot \/ NextSession \/ NextAuth \/ NextAbout \/ NextSkills \/ NextProjects
Spec == Init /\ [][Next]_vars

\* =============================================================== claims
\* What validateSession rejects: no header, not 'Bearer <token>', or a token
\* that jwt.verify refuses at this instant.
FailsValidation(h) ==
    \/ ~h.present
    \/ h.scheme # "Bearer"
    \/ jwt_verify(h.token, JWT_SECRET, now) # "ok"

\* C1: a request to a protected route whose Authorization header is absent,
\* is not of the form 'Bearer <token>' or carries a token that fails
\* verification is answered 401, its handler never starts and no collection
\* changes.
C1_GateBeforeStore ==
    [][\A h \in HeaderForms :
          (FailsValidation(h) /\ Protected(1, h))
              => /\ res'[1].status = 401
                 /\ res'[1].message \in {"Unauthorized: Missing Token",
                                         "Unauthorized: Invalid or Expired Token"}
                 /\ pc'[1] = "idle"
                 /\ store' = store]_vars

\* C1 witness: a delete of a stored project, sent with a token whose
\* signature is good and whose day has passed, was answered 401 and the
\* project is still there.
C1_Witness ==
    /\ req[1].route = "DELETE /projects/:id"
    /\ res[1].status = 401
    /\ req[1].auth.scheme = "Bearer"
    /\ jwt_verify(req[1].auth.token, JWT_SECRET, now) = "expired"
    /\ FindById(Project, req[1].id.val) # 0

\* The password is the one the administrator document was created with.
CorrectPassword(p, doc) == p.type = "string" /\ hashSync(p) = doc.password

\* C2: a login with an email no administrator has, and a login with an
\* administrator's email and a wrong password, get the same answer: 401
\* 'Invalid credentials', no token, no store change.
C2_SameOutcome ==
    [][\A e \in Emails, p \in Passwords :
          (/\ Login(1, e, p)
           /\ \/ AdminFindOne(e) = 0
              \/ ~CorrectPassword(p, Admin[AdminFindOne(e)]))
              => /\ res'[1] = [status |-> 401, message |-> "Invalid credentials",
                               data |-> NoData]
                 /\ issued' = issued
                 /\ store' = store]_vars

\* What validateSession answers for an issued token at this instant.
Session(i) == authenticate(Bearer(i.token))
Accepted(i) == Session(i).ok /\ Session(i).adminId = i.admin
Expired(i) ==
    /\ ~Session(i).ok
    /\ Session(i).status = 401
    /\ Session(i).message = "Unauthorized: Invalid or Expired Token"

\* C3 as stated: a token is accepted, and yields its administrator, at every
\* time less than 1 day after its issuance, and rejected as invalid-or-expired
\* at every time after that day.
C3_DayWindow ==
    \A i \in issued :
        /\ now - i.at < MsPerDay => Accepted(i)
        /\ now - i.at > MsPerDay => Expired(i)

\* C3 amended: the window is counted in whole seconds of the clock: a token
\* is accepted exactly while the clock's second is less than 86400 after the
\* second of its issuance, so at every time up to 1 day less 1 second after
\* issuance, and it is rejected at every time from 1 day after issuance on.
C3_DayWindowInSeconds ==
    \A i \in issued :
        /\ (now \div MsPerSec < (i.at \div MsPerSec) + ExpiresIn) => Accepted(i)
        /\ (now \div MsPerSec >= (i.at \div MsPerSec) + ExpiresIn) => Expired(i)
        /\ now - i.at <= MsPerDay - MsPerSec => Accepted(i)
        /\ now - i.at >= MsPerDay => Expired(i)

\* C3 witness: one token, well signed, is past its day and rejected while a
\* later one is still accepted.
C3_Witness ==
    \E i, j \in issued :
        /\ now - i.at >= MsPerDay
        /\ i.token.sig = Sig(JWT_SECRET, i.token.id, i.token.iat, i.token.exp)
        /\ Expired(i)
        /\ now > j.at
        /\ Accepted(j)

\* C4: however update-about requests interleave, the store never holds two
\* About records, and holds exactly one once a request has completed.
C4_OneAbout ==
    /\ Len(About) <= 1
    /\ (\E r \in Reqs : req[r].route = "PUT /about" /\ pc[r] = "idle" /\ res[r].status = 200)
           => Len(About) = 1

\* C5: the bootstrap creates an administrator only in a store that has none:
\* the collection never holds two, it holds one once a bootstrap has
\* completed, and that one has the configured or default email and a hash
\* of the configured or default password, never the plaintext.
C5_OneAdministrator ==
    /\ Len(Admin) <= 1
    /\ seedPc = "done" => Len(Admin) = 1
    /\ \A i \in DOMAIN Admin :
          /\ Admin[i].password.hashed
          /\ \E e \in Envs :
                /\ Admin[i].email = OrElse(e.ADMIN_EMAIL, Str(DefaultEmail))
                /\ compareSync(OrElse(e.ADMIN_PASSWORD, Str(DefaultPassword)),
                               Admin[i].password) = "match"

\* C5 witness: a later startup, configured with another email, has completed
\* its bootstrap and the one administrator is still the first startup's.
C5_Witness ==
    /\ seedPc = "done"
    /\ Len(Admin) = 1
    /\ Admin[1].email # OrElse(env.ADMIN_EMAIL, Str(DefaultEmail))

\* The replace-skills request of slot 1: its list, and where it stands.
NewNames == req[1].body.names
Replacing == req[1].route = "PUT /skills" /\ pc[1] = "skills_insert"
\* Between the delete-all and the completion of the insert-all.
InWindow == Replacing /\ loc[1].todo # <<>>
\* The insert-all has completed and no later replace has begun.
Replaced ==
    /\ req[1].route = "PUT /skills"
    /\ \/ pc[1] = "skills_insert" /\ loc[1].todo = <<>>
       \/ pc[1] = "idle" /\ res[1].status = 200

\* C6: a replace-skills request with a list of distinct names, no other
\* replace overlapping it, answers with the names of the list, in a store
\* whose Skill names are exactly the list's; and a read of the content after
\* it has completed returns exactly those names.
C6_ReplaceThenRead ==
    [][/\ (PutSkillsDone(1) /\ Distinct(NewNames))
            => /\ res'[1].status = 200
               /\ res'[1].data.names = NewNames
               /\ Range(Names(Skill')) = Range(NewNames)
               /\ Len(Skill') = Len(NewNames)
       /\ \A r \in Readers :
            (GetContentSkills(r) /\ pc[1] = "idle" /\ res[1].status = 200
                 /\ req[1].route = "PUT /skills" /\ Distinct(NewNames))
                => /\ res'[r].status = 200
                   /\ Range(res'[r].data.skills) = Range(NewNames)
                   /\ Len(res'[r].data.skills) = Len(NewNames)]_vars

\* C6 witness: a read saw the skills Go and TS; since then a replace by
\* Rust and Go has been answered, and a read begun after that answer is about
\* to fetch the skills, which are exactly Rust and Go.
C6_Witness ==
    \E r \in Readers :
        /\ res[r].data.kind = "content" /\ res[r].data.skills = <<"Go", "TS">>
        /\ pc[1] = "idle" /\ res[1].status = 200 /\ req[1].route = "PUT /skills"
        /\ NewNames = <<"Rust", "Go">>
        /\ pc[r] = "content_skills"
        /\ Names(Skill) = NewNames

\* C7 as stated: a delete whose identifier matches no stored record answers
\* {message: "Deleted"} and leaves the collection as it was.
C7_DeleteAbsent ==
    [][\A h \in SessionHeaders, id \in IdParams :
          /\ (DeleteProject(1, h, id) /\ FindById(Project, CastObjectId(id)) = 0)
                => /\ res'[1].status = 200 /\ res'[1].message = "Deleted"
                   /\ Project' = Project
          /\ (DeleteExperience(1, h, id) /\ FindById(Experience, CastObjectId(id)) = 0)
                => /\ res'[1].status = 200 /\ res'[1].message = "Deleted"
                   /\ Experience' = Experience]_vars

\* C7 amended: a delete whose identifier is well formed (casts to an
\* ObjectId) answers {message: "Deleted"} and leaves a collection without
\* that identifier, unchanged when no record matched; so repeating it gives
\* the same answer and the same store.  A malformed identifier is answered
\* 500 'Delete error', the collection unchanged.
C7_DeleteWellFormed ==
    [][\A h \in SessionHeaders, id \in IdParams :
          /\ DeleteProject(1, h, id) =>
                IF id.wellFormed
                THEN /\ res'[1].status = 200 /\ res'[1].message = "Deleted"
                     /\ FindById(Project', id.val) = 0
                     /\ FindById(Project, id.val) = 0 => Project' = Project
                ELSE /\ res'[1].status = 500 /\ res'[1].message = "Delete error"
                     /\ Project' = Project
          /\ DeleteExperience(1, h, id) =>
                IF id.wellFormed
                THEN /\ res'[1].status = 200 /\ res'[1].message = "Deleted"
                     /\ FindById(Experience', id.val) = 0
                     /\ FindById(Experience, id.val) = 0 => Experience' = Experience
                ELSE /\ res'[1].status = 500 /\ res'[1].message = "Delete error"
                     /\ Experience' = Experience]_vars

\* C7 witness: a delete of an identifier no project ever had was answered
\* "Deleted" and the projects are still there.
C7_Witness ==
    /\ req[1].route = "DELETE /projects/:id"
    /\ req[1].id.wellFormed /\ req[1].id.val = MaxDocs + 1
    /\ res[1].status = 200 /\ res[1].message = "Deleted"
    /\ Project # <<>>

\* C8 as stated: the image of a project after a create or update is the
\* '/uploads/' path of the file when a file came along; without a file it is
\* unset on create and the prior value on update, whatever the form fields.
C8_ImageFromFileAlone ==
    [][\A h \in SessionHeaders, b \in ProjectBodies, f \in Files :
          /\ PostProject(1, h, b, f) =>
                Project'[Len(Project')].image =
                    IF f.present
                    THEN [type |-> "string", prefix |-> UploadPrefix, stamp |-> now,
                          name |-> f.originalname]
                    ELSE Unset
          /\ \A id \in IdParams :
                (PutProject(1, h, id, b, f) /\ FindById(Project, CastObjectId(id)) # 0)
                    => LET k == FindById(Project, CastObjectId(id))
                       IN  Project'[k].image =
                               IF f.present
                               THEN [type |-> "string", prefix |-> UploadPrefix,
                                     stamp |-> now, name |-> f.originalname]
                               ELSE Project[k].image]_vars

\* C8 amended: with a file, the image is the '/uploads/' path of the file,
\* overwriting any prior value and any image form field; without a file it
\* is the request's image form field when the form carries one, and
\* otherwise unset on create and the prior value on update.
C8_ImageFromFileOrField ==
    [][\A h \in SessionHeaders, b \in ProjectBodies, f \in Files :
          /\ PostProject(1, h, b, f) =>
                Project'[Len(Project')].image =
                    IF f.present
                    THEN [type |-> "string", prefix |-> UploadPrefix, stamp |-> now,
                          name |-> f.originalname]
                    ELSE b.image
          /\ \A id \in IdParams :
                (PutProject(1, h, id, b, f) /\ FindById(Project, CastObjectId(id)) # 0)
                    => LET k == FindById(Project, CastObjectId(id))
                       IN  Project'[k].image =
                               IF f.present
                               THEN [type |-> "string", prefix |-> UploadPrefix,
                                     stamp |-> now, name |-> f.originalname]
                               ELSE IF b.image.type = "undefined"
                               THEN Project[k].image
                               ELSE b.image]_vars

\* C8 witness: an update without a file and without an image field was
\* answered, and the project still has the upload path it had.
C8_Witness ==
    /\ req[1].route = "PUT /projects/:id"
    /\ ~req[1].file.present
    /\ req[1].body.image.type = "undefined"
    /\ req[1].body.title.type = "string"
    /\ res[1].status = 200 /\ ~res[1].data.null
    /\ res[1].data.doc.image.prefix = UploadPrefix
    /\ FindById(Project, req[1].id.val) # 0

\* C9: an update whose identifier matches no stored record is answered with
\* a 500-class failure, and creates no record.
C9_UpdateAbsentFails ==
    [][\A h \in SessionHeaders, id \in IdParams :
          /\ \A b \in ProjectBodies, f \in Files :
                (PutProject(1, h, id, b, f) /\ FindById(Project, CastObjectId(id)) = 0)
                    => res'[1].status = 500 /\ Project' = Project
          /\ \A b \in ExperienceBodies :
                (PutExperience(1, h, id, b) /\ FindById(Experience, CastObjectId(id)) = 0)
                    => res'[1].status = 500 /\ Experience' = Experience]_vars

\* C10: a read of the skills that falls between a replace's delete-all and
\* the completion of its insert-all returns a strict part of the new list,
\* possibly nothing; a read outside that window returns a complete list, the
\* one the last replace inserted.
C10_ReadDuringReplace ==
    [][\A r \in Readers :
          (GetContentSkills(r) /\ req[1].route = "PUT /skills" /\ Distinct(NewNames))
              => LET got == res'[r].data.skills
                 IN  /\ InWindow => /\ Range(got) \subseteq Range(NewNames)
                                    /\ Len(got) < Len(NewNames)
                     /\ Replaced => /\ Range(got) = Range(NewNames)
                                    /\ Len(got) = Len(NewNames)]_vars

\* C10 witness: a replace of a non-empty list by another non-empty list has
\* deleted the old names and not yet inserted a new one, and a read is about
\* to fetch the skills: it gets none, neither the old list nor the new.
C10_Witness ==
    \E r \in Readers :
        /\ InWindow
        /\ res[1].status = 200 /\ res[1].data.kind = "names" /\ res[1].data.names # <<>>
        /\ NewNames # <<>>
        /\ pc[r] = "content_skills"
        /\ Skill = <<>>

====
